---- MODULE Spec2Model ----
(***************************************************************************)
(* Model of parse_utility_rates.py: the ZIP -> utility -> tariff filter    *)
(* pipeline (script sections 2-8) and the tier walk of                      *)
(* effective_cents_per_kwh_for_usage.                                       *)
(*                                                                         *)
(* Numbers.  The floats of the function are exact quantities               *)
(* [k, e] = k + e / EpsDen: usage in kWh, k whole kWh and e units of       *)
(* 2^-20 kWh (about 0.95e-6).  Such a usage is a double, and the sums and  *)
(* differences of the walk on it are exact in float arithmetic, so that    *)
(* the comparison with 1e-6 at line 154 is the code's.  Tier bounds are    *)
(* whole kWh.  A rate r of the model stands for                            *)
(* r / RateDen dollars per kWh, and cost is accumulated in the same unit.  *)
(* A returned price is the exact fraction num / den of two quantities.     *)
(* A missing cell (NaN / NaT / None in a pandas row) is the empty tuple,   *)
(* a present number v is the 1-tuple <<v>>.                                *)
(***************************************************************************)
EXTENDS Integers, Sequences, FiniteSets, TLC

VARIABLES
    \* ---- tier walk (effective_cents_per_kwh_for_usage) ----
    row,            \* the tariff's tier columns: sequence of [rate, max]
    monthly_kwh,    \* the usage argument
    ppc,            \* position: "loop", "after", "done"
    w,              \* locals: [tier, usage_remaining, cost, prev_max]
    result,         \* the returned value
    billed,         \* history: each billed tier, its tier_energy, rate and
                    \* the usage_remaining it was taken from
    \* ---- script, sections 2-8 ----
    pc,             \* the statement the script is about to run
    today,          \* pd.Timestamp.today().normalize(), as a day number
    zipmap,         \* rows [zip, utility_name]
    df,             \* the URDB table: one row per tariff
    utilities, mapped_utilities,
    df_zip, df_zip_res, df_active, df_single,
    pat,            \* index of the exclusion pattern the loop is at
    final_output

pvars == <<row, monthly_kwh, ppc, w, result, billed>>
svars == <<pc, today, zipmap, df, utilities, mapped_utilities,
           df_zip, df_zip_res, df_active, df_single, pat, final_output>>
vars == <<pvars, svars>>

-----------------------------------------------------------------------------
(* Bounds of the input space *)
MaxTiers == 2       \* generated rows have 0..MaxTiers tier columns
MaxRate  == 2       \* generated rates are NaN or 0..MaxRate
MaxBound == 3       \* generated tier maxima are NaN or 0..MaxBound
MaxKwh   == 5       \* generated usages have 0..MaxKwh whole kWh
MaxEps   == 2       \* ... plus 0..MaxEps units of 2^-20 kWh
MaxRows  == 2       \* the URDB table has 0..MaxRows rows
MaxDate  == 2       \* dates and today are day numbers 0..MaxDate

(* Program constants *)
NumTiers == 16      \* for tier in range(0, 16)
DefaultKwh == 720   \* monthly_kwh=720.0
RateDen == 100      \* fixed point of the model's rates: r stands for r/100 $/kWh
EpsDen == 1048576   \* fixed point of the model's quantities: e stands for e/2^20
TolInv == 1000000   \* 1e-6 is 1 / TolInv
TargetZip == 1749   \* int("01749")
OtherZip == TargetZip + 390    \* a ZIP of the ZIP map other than the target
EndFill == MaxDate + 1  \* pd.Timestamp("2100-01-01"): after every date of the model

NaN == <<>>
Num(v) == <<v>>
IsNa(x) == x = <<>>
Val(x) == x[1]

Max(a, b) == IF a >= b THEN a ELSE b

(* Exact arithmetic on quantities k + e / EpsDen, with |e| < EpsDen *)
Q(k) == [k |-> k, e |-> 0]
QAdd(a, b) == [k |-> a.k + b.k, e |-> a.e + b.e]
QSub(a, b) == [k |-> a.k - b.k, e |-> a.e - b.e]
QScale(a, n) == [k |-> a.k * n, e |-> a.e * n]
\* a <= b: b - a = (dk + de \div EpsDen) + (de % EpsDen) / EpsDen
QLe(a, b) == (b.k - a.k) + ((b.e - a.e) \div EpsDen) >= 0
QLt(a, b) == ~QLe(b, a)
QMin(a, b) == IF QLe(a, b) THEN a ELSE b
QMax(a, b) == IF QLe(b, a) THEN a ELSE b

None == [none |-> TRUE]
NotReturned == [unset |-> TRUE]

-----------------------------------------------------------------------------
(* Inputs *)
RateDom == {NaN} \cup {Num(r) : r \in 0..MaxRate}
BoundDom == {NaN} \cup {Num(m) : m \in 0..MaxBound}
TierDom == [rate : RateDom, max : BoundDom]

RECURSIVE SeqsUpTo(_, _)
SeqsUpTo(S, n) ==
    IF n = 0 THEN {<<>>}
    ELSE LET shorter == SeqsUpTo(S, n - 1)
         IN  shorter \cup {Append(s, x) : s \in {q \in shorter : Len(q) = n - 1}, x \in S}

\* The spec's scenario: 0.12 $/kWh up to 400 kWh, then 0.18 $/kWh unbounded.
ScenarioRow == << [rate |-> Num(12), max |-> Num(400)], [rate |-> Num(18), max |-> NaN] >>

\* A row with more tier columns than the loop visits: tiers 0..15 carry no
\* rate, tier 16 carries one.
LongRow == [i \in 1..(NumTiers + 1) |->
              IF i <= NumTiers THEN [rate |-> NaN, max |-> Num(1)]
                               ELSE [rate |-> Num(1), max |-> NaN]]

\* A priced tariff with more tiers than the loop visits: tier n, n = 0..15,
\* at 0.01 $/kWh up to n + 1 kWh, then tier 16 at 0.02 $/kWh unbounded.
LongPricedRow == [i \in 1..(NumTiers + 1) |->
                    IF i <= NumTiers THEN [rate |-> Num(1), max |-> Num(i)]
                                     ELSE [rate |-> Num(2), max |-> NaN]]

\* A three-tier tariff: 0.01 up to 1 kWh, 0.02 up to 3 kWh, then 0.03 unbounded.
ThreeTierRow == << [rate |-> Num(1), max |-> Num(1)], [rate |-> Num(2), max |-> Num(3)],
                   [rate |-> Num(3), max |-> NaN] >>

Rows == SeqsUpTo(TierDom, MaxTiers)
            \cup {ScenarioRow, ThreeTierRow, LongRow, LongPricedRow}
Usages == {[k |-> k, e |-> e] : k \in 0..MaxKwh, e \in 0..MaxEps} \cup {Q(DefaultKwh)}

-----------------------------------------------------------------------------
(* effective_cents_per_kwh_for_usage, lines 116-161 *)

\* line 129: rate_col not in row.index
NoRateColumn(r, tier) == tier >= Len(r)

\* line 133: pd.isna(rate) or not isinstance(rate, (int, float)) or rate <= 0
RateUnusable(rate) == IsNa(rate) \/ Val(rate) <= 0

\* line 138: pd.isna(tier_max) or tier_max <= 0
Unbounded(tier_max) == IsNa(tier_max) \/ Val(tier_max) <= 0

TierEnergyNoPrev(tier_max, usage_remaining, prev_max) ==
    IF Unbounded(tier_max) THEN usage_remaining
    ELSE QMin(usage_remaining, Q(Max(Val(tier_max), 0)))

TierEnergyNoMin(tier_max, usage_remaining, prev_max) ==
    IF Unbounded(tier_max) THEN usage_remaining
    ELSE Q(Max(Val(tier_max) - prev_max, 0))

\* lines 138-143
TierEnergy(tier_max, usage_remaining, prev_max) ==
    IF Unbounded(tier_max) THEN usage_remaining
    ELSE LET available == Max(Val(tier_max) - prev_max, 0)
         IN  QMin(usage_remaining, Q(available))

\* line 146: prev_max = tier_max if not pd.isna(tier_max) else prev_max
PrevMaxAfterEmpty(tier_max, prev_max) ==
    IF ~IsNa(tier_max) THEN Val(tier_max) ELSE prev_max

\* line 152: prev_max = tier_max if not pd.isna(tier_max) and tier_max > 0 else prev_max
PrevMaxAfterBill(tier_max, prev_max) ==
    IF ~IsNa(tier_max) /\ Val(tier_max) > 0 THEN Val(tier_max) ELSE prev_max

AccrueOverwrite(cost, tier_energy, rate) == QScale(tier_energy, rate)

\* line 149: cost += tier_energy * rate
Accrue(cost, tier_energy, rate) == QAdd(cost, QScale(tier_energy, rate))

\* line 154: usage_remaining <= 1e-6.  With whole + frac / EpsDen the value,
\* 0 <= frac < EpsDen, frac / EpsDen <= 1 / TolInv is frac <= EpsDen \div TolInv.
Negligible(usage_remaining) ==
    LET whole == usage_remaining.k + (usage_remaining.e \div EpsDen)
        frac == usage_remaining.e % EpsDen
    IN  whole < 0 \/ (whole = 0 /\ frac <= EpsDen \div TolInv)

\* lines 121-123
WalkInit(kwh) == [tier |-> 0, usage_remaining |-> kwh, cost |-> Q(0), prev_max |-> 0]

\* Which way one pass of the loop header and body goes.
Branch(r, s) ==
    IF s.tier >= NumTiers THEN "exhausted"
    ELSE IF NoRateColumn(r, s.tier) THEN "nocolumn"
    ELSE IF RateUnusable(r[s.tier + 1].rate) THEN "norate"
    ELSE IF QLe(TierEnergy(r[s.tier + 1].max, s.usage_remaining, s.prev_max), Q(0))
         THEN "noenergy"
    ELSE "bill"

\* One pass of the loop body for a tier whose column exists (lines 132-155).
\* The result carries brk = TRUE when the pass ends in line 155's break.
TierStep(r, s) ==
    LET rate == r[s.tier + 1].rate
        tier_max == r[s.tier + 1].max
        tier_energy == TierEnergy(tier_max, s.usage_remaining, s.prev_max)
    IN  IF RateUnusable(rate)
        THEN [tier |-> s.tier + 1, usage_remaining |-> s.usage_remaining,
              cost |-> s.cost, prev_max |-> s.prev_max, brk |-> FALSE]
        ELSE IF QLe(tier_energy, Q(0))
        THEN [tier |-> s.tier + 1, usage_remaining |-> s.usage_remaining,
              cost |-> s.cost,
              prev_max |-> PrevMaxAfterEmpty(tier_max, s.prev_max), brk |-> FALSE]
        ELSE LET rem == QSub(s.usage_remaining, tier_energy)
             IN  [tier |-> IF Negligible(rem) THEN s.tier ELSE s.tier + 1,
                  usage_remaining |-> rem,
                  cost |-> Accrue(s.cost, tier_energy, Val(rate)),
                  prev_max |-> PrevMaxAfterBill(tier_max, s.prev_max),
                  brk |-> Negligible(rem)]

Locals(s) == [tier |-> s.tier, usage_remaining |-> s.usage_remaining,
              cost |-> s.cost, prev_max |-> s.prev_max]

\* The locals when the loop is left (lines 125-155), from locals s.
RECURSIVE WalkFrom(_, _)
WalkFrom(r, s) ==
    IF Branch(r, s) \in {"exhausted", "nocolumn"} THEN s
    ELSE LET n == TierStep(r, s)
         IN  IF n.brk THEN Locals(n) ELSE WalkFrom(r, Locals(n))

\* lines 157-161
ReturnValue(cost, kwh) ==
    IF QLe(kwh, Q(0)) THEN None
    ELSE [num |-> QScale(cost, 100), den |-> QScale(kwh, RateDen)]

\* The whole function.
EffectiveCents(r, kwh) == ReturnValue(WalkFrom(r, WalkInit(kwh)).cost, kwh)

\* extract_cents_per_kwh, lines 167-185: the lowest positive tier rate
ExtractCents(r) ==
    LET rates == {Val(r[i].rate) : i \in {j \in 1..Len(r) : ~RateUnusable(r[j].rate)}}
    IN  IF rates = {} THEN None
        ELSE [num |-> Q((CHOOSE x \in rates : \A y \in rates : x <= y) * 100),
              den |-> Q(RateDen)]

-----------------------------------------------------------------------------
(* The tier walk as a state machine *)

\* the script is not running
ScriptIdle ==
    /\ pc = "idle" /\ today = 0 /\ zipmap = <<>> /\ df = <<>>
    /\ utilities = <<>> /\ mapped_utilities = <<>>
    /\ df_zip = <<>> /\ df_zip_res = <<>> /\ df_active = <<>> /\ df_single = <<>>
    /\ pat = 1 /\ final_output = <<>>

InitPrice ==
    /\ row \in Rows
    /\ monthly_kwh \in Usages
    /\ ppc = "loop"
    /\ w = WalkInit(monthly_kwh)
    /\ result = NotReturned
    /\ billed = <<>>
    /\ ScriptIdle

LoopExhausted ==
    /\ ppc = "loop" /\ Branch(row, w) = "exhausted"
    /\ ppc' = "after"
    /\ UNCHANGED <<row, monthly_kwh, w, result, billed, svars>>

LoopNoColumn ==
    /\ ppc = "loop" /\ Branch(row, w) = "nocolumn"
    /\ ppc' = "after"
    /\ UNCHANGED <<row, monthly_kwh, w, result, billed, svars>>

LoopSkipRate ==
    /\ ppc = "loop" /\ Branch(row, w) = "norate"
    /\ w' = Locals(TierStep(row, w))
    /\ UNCHANGED <<row, monthly_kwh, ppc, result, billed, svars>>

LoopSkipEnergy ==
    /\ ppc = "loop" /\ Branch(row, w) = "noenergy"
    /\ w' = Locals(TierStep(row, w))
    /\ UNCHANGED <<row, monthly_kwh, ppc, result, billed, svars>>

LoopBill ==
    /\ ppc = "loop" /\ Branch(row, w) = "bill"
    /\ LET n == TierStep(row, w)
       IN  /\ w' = Locals(n)
           /\ ppc' = IF n.brk THEN "after" ELSE "loop"
           /\ billed' = Append(billed,
                  [tier |-> w.tier,
                   tier_energy |-> TierEnergy(row[w.tier + 1].max,
                                              w.usage_remaining, w.prev_max),
                   rate |-> Val(row[w.tier + 1].rate),
                   before |-> w.usage_remaining])
    /\ UNCHANGED <<row, monthly_kwh, result, svars>>

Return ==
    /\ ppc = "after"
    /\ result' = ReturnValue(w.cost, monthly_kwh)
    /\ ppc' = "done"
    /\ UNCHANGED <<row, monthly_kwh, w, billed, svars>>

NextPrice ==
    \/ LoopExhausted
    \/ LoopNoColumn
    \/ LoopSkipRate
    \/ LoopSkipEnergy
    \/ LoopBill
    \/ Return

SpecPrice == InitPrice /\ [][NextPrice]_vars

-----------------------------------------------------------------------------
(* The script, sections 2-8.  A string cell that is matched against the    *)
(* exclusion patterns (name, description) is a tuple of characters.        *)

\* lines 80-85
exclude_multi == <<
    <<"T", "w", "o">>,
    <<"2", "-">>,
    <<"2", " ">>,
    <<"T", "w", "o", " ", "R", "e", "s", "i", "d", "e", "n", "t", "i", "a", "l">>,
    <<"T", "h", "r", "e", "e">>,
    <<"3", "-">>,
    <<"3", " ">>,
    <<"T", "h", "r", "e", "e", " ", "R", "e", "s", "i", "d", "e", "n", "t", "i", "a", "l">>,
    <<"M", "u", "l", "t", "i">>,
    <<"M", "u", "l", "t", "i", "p", "l", "e">>,
    <<"C", "o", "n", "d", "o", "m", "i", "n", "i", "u", "m">>
>>

\* lines 87-96
exclude_special == <<
    <<"W", "a", "t", "e", "r", " ", "H", "e", "a", "t", "e", "r">>,
    <<"H", "e", "a", "t", " ", "P", "u", "m", "p">>,
    <<"O", "f", "f", " ", "P", "e", "a", "k">>,
    <<"O", "f", "f", "-", "p", "e", "a", "k">>,
    <<"S", "t", "o", "r", "a", "g", "e">>,
    <<"T", "h", "e", "r", "m", "a", "l">>,
    <<"E", "l", "e", "c", "t", "r", "i", "c", " ", "V", "e", "h", "i", "c", "l", "e">>,
    <<"E", "V">>,
    <<"I", "n", "t", "e", "r", "r", "u", "p", "t", "i", "b", "l", "e">>,
    <<"T", "i", "m", "e", " ", "o", "f", " ", "U", "s", "e">>,
    <<"T", "O", "U">>,
    <<"S", "e", "a", "s", "o", "n", "a", "l">>
>>

\* lines 98-107
exclude_low_income == <<
    <<"L", "o", "w", " ", "I", "n", "c", "o", "m", "e">>,
    <<"I", "n", "c", "o", "m", "e", " ", "E", "l", "i", "g", "i", "b", "l", "e">>,
    <<"D", "i", "s", "c", "o", "u", "n", "t">>,
    <<"L", "i", "f", "e", "l", "i", "n", "e">>,
    <<"A", "s", "s", "i", "s", "t", "a", "n", "c", "e">>,
    <<"S", "u", "b", "s", "i", "d", "i", "z", "e", "d">>,
    <<"R", "-", "2">>,
    <<"R", "2">>,
    <<"A", "-", "2">>,
    <<"A", "2">>
>>


\* line 110: exclude_multi + exclude_special + exclude_low_income
patterns == exclude_multi \o exclude_special \o exclude_low_income

\* lines 37-42
utility_map ==
    ("Massachusetts Electric Co" :> "Massachusetts Electric Co") @@
    ("NSTAR Electric Company" :> "NSTAR Electric Company") @@
    ("Town of Hudson - (MA)" :> "Town of Hudson, Massachusetts (Utility Company)") @@
    ("Town of Littleton - (MA)" :> "Town of Littleton, Massachusetts (Utility Company)")

UpperCase == <<"A", "B", "C", "D", "E", "F", "G", "H", "I", "J", "K", "L", "M", "N", "O", "P", "Q", "R", "S", "T", "U", "V", "W", "X", "Y", "Z">>
LowerCase == <<"a", "b", "c", "d", "e", "f", "g", "h", "i", "j", "k", "l", "m", "n", "o", "p", "q", "r", "s", "t", "u", "v", "w", "x", "y", "z">>

\* re.IGNORECASE on ASCII text
ToLower(c) ==
    IF \E i \in 1..Len(UpperCase) : UpperCase[i] = c
    THEN LowerCase[CHOOSE i \in 1..Len(UpperCase) : UpperCase[i] = c]
    ELSE c

\* pattern p, taken literally, matches s at position pos from its k-th character on
RECURSIVE MatchAt(_, _, _, _, _)
MatchAt(s, p, pos, k, case) ==
    IF k > Len(p) THEN TRUE
    ELSE IF pos + k - 1 > Len(s) THEN FALSE
    ELSE /\ IF case THEN s[pos + k - 1] = p[k]
                    ELSE ToLower(s[pos + k - 1]) = ToLower(p[k])
         /\ MatchAt(s, p, pos, k + 1, case)

\* re.search: the first position from pos on where p matches
RECURSIVE Search(_, _, _, _)
Search(s, p, pos, case) ==
    IF pos > Len(s) + 1 THEN FALSE
    ELSE MatchAt(s, p, pos, 1, case) \/ Search(s, p, pos + 1, case)

StrContainsCaseSensitive(cell, p, case, na) ==
    IF IsNa(cell) THEN na ELSE Search(Val(cell), p, 1, TRUE)

\* Series.str.contains(pat, case=..., na=...) on one cell (lines 111-112)
StrContains(cell, p, case, na) ==
    IF IsNa(cell) THEN na ELSE Search(Val(cell), p, 1, case)

\* read_csv (line 10) gives a column with no value at all the dtype float64,
\* and a table without rows object columns; every frame derived from the
\* loaded table keeps the column's dtype.  The .str accessor of lines 111-112
\* raises AttributeError on a column that is not of a string dtype.
StrColumn(loaded, col) ==
    Len(loaded) = 0 \/ \E i \in 1..Len(loaded) : ~IsNa(loaded[i][col])

\* lines 111-112: one pass of the exclusion loop over the frame, whose
\* columns have the dtypes of the loaded table.  raised = TRUE when a .str
\* access raises; line 111's assignment is then done if line 112 raised.
ExcludePattern(frame, p, loaded) ==
    LET KeepName(r) == ~StrContains(r.name, p, FALSE, FALSE)
        KeepDescription(r) == ~StrContains(r.description, p, FALSE, FALSE)
    IN  IF ~StrColumn(loaded, "name")
        THEN [raised |-> TRUE, frame |-> frame]
        ELSE IF ~StrColumn(loaded, "description")
        THEN [raised |-> TRUE, frame |-> SelectSeq(frame, KeepName)]
        ELSE [raised |-> FALSE,
              frame |-> SelectSeq(SelectSeq(frame, KeepName), KeepDescription)]

\* Series.unique().tolist(): the distinct values in order of first appearance
RECURSIVE Unique(_)
Unique(q) ==
    IF q = <<>> THEN <<>>
    ELSE LET front == Unique(SubSeq(q, 1, Len(q) - 1))
             last == q[Len(q)]
         IN  IF \E i \in 1..Len(front) : front[i] = last THEN front
             ELSE Append(front, last)

\* pd.to_datetime(cell, errors='coerce'): a date, or NaT for a missing or
\* unparseable cell.  A date cell is <<day>>; an unparseable one is Garbage.
Garbage == <<0, 0>>
ToDatetime(cell) == IF Len(cell) = 1 THEN cell ELSE NaN

\* Series.fillna(v) on one cell
FillNa(cell, v) == IF IsNa(cell) THEN Num(v) ELSE cell

\* a comparison with NaT is False
DateLe(a, b) == ~IsNa(a) /\ ~IsNa(b) /\ Val(a) <= Val(b)

\* lines 59-63
CoerceDates(r) ==
    [r EXCEPT !.startdate = ToDatetime(@),
              !.enddate = FillNa(ToDatetime(@), EndFill)]

\* lines 67-70
IsActive(r, day) == DateLe(r.startdate, Num(day)) /\ DateLe(Num(day), r.enddate)

MapSeq(q, F(_)) == [i \in 1..Len(q) |-> F(q[i])]

-----------------------------------------------------------------------------
(* Inputs of the script *)

NameTimeOfUse == <<"R", "e", "s", "i", "d", "e", "n", "t", "i", "a", "l", " ", "T", "i", "m", "e", " ", "o", "f", " ", "U", "s", "e">>   \* "Residential Time of Use"
NameBasic == <<"B", "a", "s", "i", "c", " ", "R", "e", "s", "i", "d", "e", "n", "t", "i", "a", "l", " ", "R", "-", "1">>   \* "Basic Residential R-1"
DescStandard == <<"S", "t", "a", "n", "d", "a", "r", "d", " ", "s", "e", "r", "v", "i", "c", "e">>   \* "Standard service"
DescDiscount == <<"l", "o", "w", " ", "i", "n", "c", "o", "m", "e", " ", "d", "i", "s", "c", "o", "u", "n", "t">>   \* "low income discount"
DescR2 == <<"R", "a", "t", "e", " ", "r", "2">>   \* "Rate r2"

BaseRow ==
    [utility |-> "Massachusetts Electric Co", sector |-> "Residential",
     is_default |-> Num(TRUE), startdate |-> Num(0), enddate |-> NaN,
     name |-> Num(NameBasic), description |-> Num(DescStandard),
     tiers |-> ScenarioRow]

DateCells == {NaN, Garbage} \cup {Num(d) : d \in 0..MaxDate}

\* rows that differ in their dates
DateRows == {[BaseRow EXCEPT !.startdate = a, !.enddate = b] : a \in DateCells, b \in DateCells}

\* rows that differ in name and description
TextRows ==
    {[BaseRow EXCEPT !.name = n, !.description = d] :
        n \in {NaN, Num(NameBasic), Num(NameTimeOfUse)},
        d \in {NaN, Num(DescStandard), Num(DescDiscount), Num(DescR2)}}

\* rows that differ in utility, sector, default flag and tiers
EligRows ==
    {[BaseRow EXCEPT !.utility = u, !.sector = sec, !.is_default = f, !.tiers = t] :
        u \in {"Massachusetts Electric Co", "NSTAR Electric Company"},
        sec \in {"Residential", "Commercial"},
        f \in {NaN, Num(TRUE), Num(FALSE)},
        t \in {ScenarioRow, <<>>}}

ZipServed ==
    << [zip |-> TargetZip, utility_name |-> "Massachusetts Electric Co"],
       [zip |-> OtherZip, utility_name |-> "NSTAR Electric Company"],
       [zip |-> TargetZip, utility_name |-> "Town of Hudson - (MA)"],
       [zip |-> TargetZip, utility_name |-> "Massachusetts Electric Co"] >>
ZipAbsentMap ==
    << [zip |-> OtherZip, utility_name |-> "NSTAR Electric Company"] >>
ZipUnmapped ==
    << [zip |-> TargetZip, utility_name |-> "Massachusetts Electric Co"],
       [zip |-> TargetZip, utility_name |-> "Unitil Energy Systems"] >>

\* the tables of up to MaxRows rows of RowDom; label is the row's index
Tables(RowDom) ==
    UNION {{[i \in 1..k |-> f[i] @@ [label |-> i]] : f \in [1..k -> RowDom]} : k \in 0..MaxRows}

InitScript(RowDom, Days, ZipMaps) ==
    /\ pc = "lookup"
    /\ today \in Days
    /\ zipmap \in ZipMaps
    /\ df \in Tables(RowDom)
    /\ utilities = <<>> /\ mapped_utilities = <<>>
    /\ df_zip = <<>> /\ df_zip_res = <<>> /\ df_active = <<>> /\ df_single = <<>>
    /\ pat = 1 /\ final_output = <<>>
    \* the function is not running
    /\ row = <<>> /\ monthly_kwh = Q(0) /\ ppc = "idle" /\ w = WalkInit(Q(0))
    /\ result = NotReturned /\ billed = <<>>

-----------------------------------------------------------------------------
(* The script as a state machine *)

\* lines 26-27
LookupZip ==
    /\ pc = "lookup"
    /\ LET IsTarget(z) == z.zip = TargetZip
           Name(z) == z.utility_name
       IN  utilities' = Unique(MapSeq(SelectSeq(zipmap, IsTarget), Name))
    /\ pc' = "map"
    /\ UNCHANGED <<today, zipmap, df, mapped_utilities, df_zip, df_zip_res,
                   df_active, df_single, pat, final_output, pvars>>

\* line 44: utility_map[u] raises KeyError for a name that is no key
MapUtilities ==
    /\ pc = "map"
    /\ IF \A i \in 1..Len(utilities) : utilities[i] \in DOMAIN utility_map
       THEN /\ mapped_utilities' = [i \in 1..Len(utilities) |-> utility_map[utilities[i]]]
            /\ pc' = "filter"
       ELSE /\ mapped_utilities' = mapped_utilities
            /\ pc' = "KeyError"
    /\ UNCHANGED <<today, zipmap, df, utilities, df_zip, df_zip_res,
                   df_active, df_single, pat, final_output, pvars>>

\* lines 50-53
FilterUtility ==
    /\ pc = "filter"
    /\ LET IsIn(r) == \E i \in 1..Len(mapped_utilities) : mapped_utilities[i] = r.utility
           IsResidential(r) == r.sector = "Residential"
       IN  /\ df_zip' = SelectSeq(df, IsIn)
           /\ df_zip_res' = SelectSeq(SelectSeq(df, IsIn), IsResidential)
    /\ pc' = "active"
    /\ UNCHANGED <<today, zipmap, df, utilities, mapped_utilities,
                   df_active, df_single, pat, final_output, pvars>>

\* lines 59-78
FilterActive ==
    /\ pc = "active"
    /\ LET Active(r) == IsActive(r, today)
           coerced == MapSeq(df_zip_res, CoerceDates)
       IN  /\ df_zip_res' = coerced
           /\ df_active' = SelectSeq(coerced, Active)
           /\ df_single' = SelectSeq(coerced, Active)
    /\ pat' = 1
    /\ pc' = "exclude"
    /\ UNCHANGED <<today, zipmap, df, utilities, mapped_utilities, df_zip,
                   final_output, pvars>>

\* lines 110-112: one pattern of the loop; the script stops with
\* AttributeError when a .str access raises
ExcludeStep ==
    /\ pc = "exclude"
    /\ LET out == ExcludePattern(df_single, patterns[pat], df)
       IN  /\ df_single' = out.frame
           /\ pat' = IF out.raised THEN pat ELSE pat + 1
           /\ pc' = IF out.raised THEN "AttributeError"
                    ELSE IF pat = Len(patterns) THEN "apply" ELSE "exclude"
    /\ UNCHANGED <<today, zipmap, df, utilities, mapped_utilities, df_zip,
                   df_zip_res, df_active, final_output, pvars>>

\* lines 188-202
ApplyPricing ==
    /\ pc = "apply"
    /\ LET Priced(r) == r @@ [cents_per_kwh |-> ExtractCents(r.tiers),
                              cents_per_kwh_1kWavg |-> EffectiveCents(r.tiers, Q(DefaultKwh))]
           Project(r) == [utility |-> r.utility, name |-> r.name,
                          cents_per_kwh |-> r.cents_per_kwh,
                          cents_per_kwh_1kWavg |-> r.cents_per_kwh_1kWavg]
       IN  /\ df_single' = MapSeq(df_single, Priced)
           /\ final_output' = MapSeq(MapSeq(df_single, Priced), Project)
    /\ pc' = "done"
    /\ UNCHANGED <<today, zipmap, df, utilities, mapped_utilities, df_zip,
                   df_zip_res, df_active, pat, pvars>>

NextScript ==
    \/ LookupZip
    \/ MapUtilities
    \/ FilterUtility
    \/ FilterActive
    \/ ExcludeStep
    \/ ApplyPricing

\* tables whose rows differ in their dates, on every day of the model
SpecDates == InitScript(DateRows, 0..MaxDate, {ZipServed}) /\ [][NextScript]_vars
\* tables whose rows differ in name and description
SpecExcl == InitScript(TextRows, {1}, {ZipServed}) /\ [][NextScript]_vars
\* tables whose rows differ in utility, sector, default flag and tiers,
\* under each ZIP map
SpecElig == InitScript(EligRows, {1}, {ZipServed, ZipAbsentMap, ZipUnmapped})
                /\ [][NextScript]_vars

-----------------------------------------------------------------------------
(* Properties of the script *)

Labels(frame) == {frame[i].label : i \in 1..Len(frame)}

\* a date cell that holds no date
Absent(cell) == Len(cell) # 1

\* (start_date absent OR start_date <= as_of) AND (end_date absent OR end_date >= as_of)
InEffect(r, as_of) ==
    /\ Absent(r.startdate) \/ Val(r.startdate) <= as_of
    /\ Absent(r.enddate) \/ Val(r.enddate) >= as_of

\* C3: the temporal filter keeps a tariff if and only if (start_date is
\* absent or start_date <= as_of) and (end_date is absent or end_date >=
\* as_of); a tariff without start_date counts as always started.
C3_TemporalFilterKeepsInEffect ==
    pc \in {"exclude", "apply", "done"} =>
        \A i \in 1..Len(df) :
            df[i].label \in Labels(df_zip_res) =>
                (df[i].label \in Labels(df_active) <=> InEffect(df[i], today))

\* the exclusion vocabularies
Vocabulary == {patterns[i] : i \in 1..Len(patterns)}

ToUpper(c) ==
    IF \E i \in 1..Len(LowerCase) : LowerCase[i] = c
    THEN UpperCase[CHOOSE i \in 1..Len(LowerCase) : LowerCase[i] = c]
    ELSE c

\* the cell holds a string that contains p, letter case ignored
ContainsCI(cell, p) ==
    /\ ~IsNa(cell)
    /\ \E k \in 0..(Len(Val(cell)) - Len(p)) :
          \A j \in 1..Len(p) : ToUpper(Val(cell)[k + j]) = ToUpper(p[j])

Matches(r) ==
    \E p \in Vocabulary : ContainsCI(r.name, p) \/ ContainsCI(r.description, p)

\* characters that are not literal in a regular expression
RegexMeta == {".", "^", "$", "*", "+", "?", "{", "}", "[", "]", "\\", "|", "(", ")"}

\* C4: after the exclusion loop no surviving tariff has a name or a
\* description that case-insensitively contains a string of the exclusion
\* vocabularies, and a tariff matching in neither field (a missing cell is no
\* match) is not removed: neither when the loop has run through, nor when
\* it stops with AttributeError.  The patterns hold no regex metacharacter,
\* so str.contains takes each literally.
C4_ExclusionByNameOrDescription ==
    /\ pc \in {"apply", "done"} =>
          \A i \in 1..Len(df_single) : ~Matches(df_single[i])
    /\ pc \in {"apply", "done", "AttributeError"} =>
          \A i \in 1..Len(df_active) :
                ~Matches(df_active[i]) => df_active[i].label \in Labels(df_single)
    /\ \A p \in Vocabulary : \A j \in 1..Len(p) : p[j] \notin RegexMeta

C4_Witness ==
    /\ pc = "done" /\ Len(df_active) = 2 /\ Len(df_single) = 1
    /\ \E i \in 1..2 :
          /\ df_active[i].label \notin Labels(df_single)
          /\ ~(\E p \in Vocabulary : ContainsCI(df_active[i].name, p))
          /\ \E p \in Vocabulary : ContainsCI(df_active[i].description, p)
    /\ IsNa(df_single[1].description)

\* C5: every tariff that reaches the priced output has is_default = true.
C5_OutputIsDefaultOnly ==
    pc = "done" => \A i \in 1..Len(df_single) : df_single[i].is_default = Num(TRUE)

\* the ZIP map has no row for the target ZIP
ZipAbsent == \A i \in 1..Len(zipmap) : zipmap[i].zip # TargetZip

\* C6: a ZIP with no row in the ZIP map fails; its empty candidate set never
\* flows on into filtering, pricing and output.
C6_AbsentZipFails ==
    ZipAbsent => pc \notin {"active", "exclude", "apply", "done"}

-----------------------------------------------------------------------------
(* Properties of the tier walk *)

Usable(r) == {i \in 1..Len(r) : ~RateUnusable(r[i].rate)}
Finite(r) == {i \in 1..Len(r) : ~Unbounded(r[i].max)}

\* Every tier has a positive rate; the upper bounds are finite, positive and
\* strictly increasing, except that the last tier may be unbounded.
WellFormed(r) ==
    /\ Len(r) >= 1
    /\ Usable(r) = 1..Len(r)
    /\ 1..(Len(r) - 1) \subseteq Finite(r)
    /\ \A i \in Finite(r) : \A j \in Finite(r) : i < j => Val(r[i].max) < Val(r[j].max)

\* kwh does not exceed the total tier capacity.
WithinCapacity(r, kwh) ==
    Len(r) \in Finite(r) => QLe(kwh, Q(Val(r[Len(r)].max)))

Lower(r, n) == IF n = 1 THEN 0 ELSE Val(r[n - 1].max)

\* rate_n * min(max(kwh - lower_n, 0), upper_n - lower_n)
TierCharge(r, n, kwh) ==
    LET over == QMax(QSub(kwh, Q(Lower(r, n))), Q(0))
    IN  QScale(IF n \in Finite(r) THEN QMin(over, Q(Val(r[n].max) - Lower(r, n)))
                                  ELSE over,
               Val(r[n].rate))

RECURSIVE FormulaCost(_, _, _)
FormulaCost(r, n, kwh) ==
    IF n = 0 THEN Q(0) ELSE QAdd(FormulaCost(r, n - 1, kwh), TierCharge(r, n, kwh))

FormulaPrice(r, kwh) ==
    [num |-> QScale(FormulaCost(r, Len(r), kwh), 100), den |-> QScale(kwh, RateDen)]

\* a price of whole numerator and denominator in hundredths of a cent per
\* kWh, rounded half up
Hundredths(price) == (2 * 100 * price.num.k + price.den.k) \div (2 * price.den.k)

\* the scenario tariff at 720 kWh costs 105.60 and is priced at 14.67 cents/kWh
ScenarioPrice ==
    (ppc = "done" /\ row = ScenarioRow /\ monthly_kwh = Q(DefaultKwh))
        => /\ w.cost = Q(10560)
           /\ result.num.e = 0 /\ result.den.e = 0 /\ Hundredths(result) = 1467

\* C1 as claimed: for a well-formed tariff and a usage 0 < monthly_kwh within
\* the total tier capacity, the returned price is 100 * (sum over tiers of
\* rate_n * min(max(monthly_kwh - lower_n, 0), upper_n - lower_n)) /
\* monthly_kwh; the scenario tariff at 720 kWh costs 105.60 and is priced at
\* 14.67 cents/kWh.
C1_PriceIsTierFormula ==
    /\ (ppc = "done" /\ WellFormed(row) /\ QLt(Q(0), monthly_kwh)
            /\ WithinCapacity(row, monthly_kwh))
        => result = FormulaPrice(row, monthly_kwh)
    /\ ScenarioPrice

\* the usage is within the capacity of tiers 0..15, the tiers the loop visits
WithinVisitedTiers(r, kwh) ==
    Len(r) > NumTiers => QLe(kwh, Q(Val(r[NumTiers].max)))

\* no tier bound lies 1e-6 kWh or less below the usage, so that line 154
\* never stops the walk on a positive remainder
NoNegligibleRemainder(r, kwh) ==
    \A n \in Finite(r) :
        LET rem == QSub(kwh, Q(Val(r[n].max)))
        IN  ~(QLt(Q(0), rem) /\ Negligible(rem))

\* C1 as amended: the price is the tier formula for a well-formed tariff and
\* a usage 0 < monthly_kwh within the total tier capacity, provided the usage
\* is within the capacity of the first 16 tiers and exceeds no tier bound by
\* 1e-6 kWh or less.
C1_PriceIsTierFormulaOfVisitedTiers ==
    /\ (ppc = "done" /\ WellFormed(row) /\ QLt(Q(0), monthly_kwh)
            /\ WithinCapacity(row, monthly_kwh)
            /\ WithinVisitedTiers(row, monthly_kwh)
            /\ NoNegligibleRemainder(row, monthly_kwh))
        => result = FormulaPrice(row, monthly_kwh)
    /\ ScenarioPrice

\* a well-formed tariff of more than 16 tiers, priced at a usage that is a
\* fraction of a kWh beyond a tier bound and within the first 16 tiers
C1_Witness ==
    /\ ppc = "done" /\ row = LongPricedRow /\ monthly_kwh = [k |-> 3, e |-> 2]
    /\ Len(billed) = 4 /\ billed[4].tier_energy = [k |-> 0, e |-> 2]
    /\ result = FormulaPrice(row, monthly_kwh)

\* C2: for monthly_kwh > 0, a tariff with zero usable tiers is priced none,
\* never 0.
C2_NoUsableTierGivesNone ==
    (ppc = "done" /\ QLt(Q(0), monthly_kwh) /\ Usable(row) = {}) => result = None

\* The positive rates are non-decreasing in tier order.
NonDecreasingRates(r) ==
    \A i \in Usable(r) : \A j \in Usable(r) : i < j => Val(r[i].rate) <= Val(r[j].rate)

CostFor(r, kwh) == WalkFrom(r, WalkInit(kwh)).cost

\* C7: for a tariff whose positive rates are non-decreasing, and usages
\* 0 < u1 <= u2, the cost the walk computes for u2 is >= the cost for u1.
C7_CostMonotoneInUsage ==
    (ppc = "done" /\ NonDecreasingRates(row))
        => \A u1 \in Usages :
              (QLt(Q(0), u1) /\ QLe(u1, monthly_kwh)) => QLe(CostFor(row, u1), w.cost)

C7_Witness ==
    /\ ppc = "done" /\ NonDecreasingRates(row) /\ Len(billed) >= 2
    /\ billed[1].rate < billed[2].rate
    /\ \E u1 \in Usages :
          QLt(Q(0), u1) /\ QLt(u1, monthly_kwh) /\ QLt(CostFor(row, u1), w.cost)

\* C8: a tier lacking a positive rate is never billed, but when it defines a
\* finite positive upper bound the walk advances prev_max to that bound, so
\* the next priced bounded tier's capacity is its own upper bound minus the
\* skipped tier's upper bound.
C8_SkippedTierAdvancesBound ==
    /\ \A i \in 1..Len(billed) : ~RateUnusable(row[billed[i].tier + 1].rate)
    /\ (ppc = "loop" /\ QLt(Q(0), monthly_kwh) /\ w.tier > 0 /\ w.tier <= Len(row)
            /\ RateUnusable(row[w.tier].rate) /\ ~Unbounded(row[w.tier].max))
        => w.prev_max = Val(row[w.tier].max)
    /\ \A i \in 1..Len(billed) :
          LET n == billed[i].tier + 1
          IN  (n > 1 /\ n \in Finite(row) /\ RateUnusable(row[n - 1].rate)
                   /\ ~Unbounded(row[n - 1].max))
              => billed[i].tier_energy =
                    QMin(billed[i].before,
                         Q(Max(Val(row[n].max) - Val(row[n - 1].max), 0)))

SetMin(S) == CHOOSE x \in S : \A y \in S : x <= y
SetMax(S) == CHOOSE x \in S : \A y \in S : x >= y
BilledRates == {billed[i].rate : i \in 1..Len(billed)}

\* C9: for monthly_kwh > 0 and a tariff in which at least one tier is billed,
\* 100 * (smallest billed rate) <= price <= 100 * (largest billed rate).
C9_PriceWithinBilledRates ==
    (ppc = "done" /\ QLt(Q(0), monthly_kwh) /\ billed # <<>>)
        => /\ QLe(QScale(result.den, 100 * SetMin(BilledRates)),
                  QScale(result.num, RateDen))
           /\ QLe(QScale(result.num, RateDen),
                  QScale(result.den, 100 * SetMax(BilledRates)))

RECURSIVE EnergySum(_, _)
EnergySum(b, n) ==
    IF n = 0 THEN Q(0) ELSE QAdd(EnergySum(b, n - 1), b[n].tier_energy)

====
